---- MODULE Spec2Model ----
(***************************************************************************)
(* Workflow transition detection and recipient resolution of the          *)
(* notifications plugin (notifications_plugin/workflow_notifications.py). *)
(*                                                                         *)
(* The two document hooks registered in hooks.py are modelled as actions  *)
(* over the process-wide cache _previous_states, the host's storage and   *)
(* the in-memory document.  Every collaborator call of the framework may  *)
(* raise: a hook run takes the set F of calls that raise during that run. *)
(***************************************************************************)
EXTENDS Naturals, Sequences, FiniteSets, TLC

VARIABLES
    db,        \* storage: document -> persisted state-field value, or Absent
    mem,       \* in-memory document: document -> pending state-field value
    phase,     \* position of each document in its save cycle
    cache,     \* _previous_states: key -> stored value (a dict: partial function)
    cycle,     \* per document, what happened so far in its current save cycle
    last,      \* what the most recent hook run did
    saves,     \* number of save cycles begun
    rin,       \* input of the most recent stand-alone resolver call
    rout,      \* its result
    handoffs   \* per document, the transitions handed to the transport so far

vars == <<db, mem, phase, cache, cycle, last, saves, rin, rout, handoffs>>

(***************************************************************************)
(* Bounds                                                                  *)
(***************************************************************************)
MaxSaves == 2
MaxFailures == 1

(***************************************************************************)
(* Values                                                                  *)
(***************************************************************************)
\* Python's None; "" is the empty string.  Both are falsy.
None == "<None>"
Absent == "<Absent>"
NotWritten == "<NotWritten>"

Truthy(v) == v # None /\ v # ""

StateValues == {None, "", "Draft", "Pending"}

(***************************************************************************)
(* The host's data: doctypes, their schema, workflows, documents, users.  *)
(***************************************************************************)
\* Documents under observation: identity -> (doctype, name).
Docs == {"d_leave", "d_claim", "d_memo", "d_note"}

\* A second Leave document, saved while other saves are in progress; its
\* name contains the separator of the cache key.
ConcurrentDocs == {"d_leave", "d_leave2"}

AllDocs == Docs \cup ConcurrentDocs

DocType(d) ==
    CASE d = "d_leave" -> "Leave"
      [] d = "d_leave2" -> "Leave"
      [] d = "d_claim" -> "Claim"
      [] d = "d_memo"  -> "Memo"
      [] d = "d_note"  -> "Note"

DocName(d) ==
    CASE d = "d_leave" -> "L-1"
      [] d = "d_leave2" -> "L-1:2"
      [] d = "d_claim" -> "C-1"
      [] d = "d_memo"  -> "M-1"
      [] d = "d_note"  -> "N-1"

\* meta.has_field: the fields of each doctype's schema.
SchemaFields(doctype) ==
    CASE doctype = "Leave" -> {"workflow_state", "owner", "assigned_to"}
      [] doctype = "Claim" -> {"status", "owner", "employee"}
      [] doctype = "Memo"  -> {"title", "owner"}
      [] doctype = "Note"  -> {"workflow_state", "owner"}
      [] OTHER -> {}

\* A Workflow Transition row: "state" is the FROM state, "next_state" the TO
\* state, "allowed" the role; the child table has no "role" column.
Transition(s, n, a) == [state |-> s, next_state |-> n, allowed |-> a, role |-> None]

LeaveTransitions ==
    { Transition("Draft", "Pending", "Employee"),
      Transition("Pending", "Approved", "Manager"),
      Transition("Pending", "Rejected", "HR"),
      Transition("Approved", "Draft", None) }

\* The rows of the Workflow doctype.
Workflows ==
    { [name |-> "Leave Approval", document_type |-> "Leave", is_active |-> 1,
       workflow_state_field |-> "workflow_state", transitions |-> LeaveTransitions],
      [name |-> "Claim Approval", document_type |-> "Claim", is_active |-> 1,
       workflow_state_field |-> "approval_state",
       transitions |-> {Transition("Draft", "Pending", "Manager")}],
      [name |-> "Memo Flow", document_type |-> "Memo", is_active |-> 1,
       workflow_state_field |-> "workflow_state", transitions |-> {}],
      [name |-> "Note Flow", document_type |-> "Note", is_active |-> 0,
       workflow_state_field |-> "workflow_state",
       transitions |-> {Transition("Draft", "Pending", "Manager")}] }

\* The collaborator calls that may raise during one hook run.
CallKinds ==
    { "get_all_workflow", "get_doc_workflow", "exists", "get_meta", "get_value",
      "exists_user", "exists_employee", "get_doc_employee", "get_roles",
      "has_role/Manager", "has_role/HR", "has_role/Auditor",
      "get_all_transition", "user_email", "enqueue" }

StorageCalls == {"get_all_workflow", "get_doc_workflow", "exists", "get_meta", "get_value"}

\* The calls each hook can make for a document: a call that is never made
\* cannot raise.
CheckCalls == StorageCalls

HandleCalls(doctype) ==
    IF \A w \in Workflows : w.document_type = doctype => w.is_active = 0
    THEN {"get_all_workflow"}
    ELSE IF doctype = "Memo" THEN {"get_all_workflow", "get_doc_workflow", "get_meta"}
    ELSE CallKinds

\* The sets of calls that raise during one hook run.
RECURSIVE UpTo(_, _)
UpTo(calls, n) ==
    IF n = 0 THEN {{}}
    ELSE LET fewer == UpTo(calls, n - 1) IN
         fewer \cup { F \cup {c} : F \in fewer, c \in calls }

CheckFailures == UpTo(CheckCalls, MaxFailures)

HandleFailures == [d \in AllDocs |-> UpTo(HandleCalls(DocType(d)), MaxFailures)]

(***************************************************************************)
(* _previous_states as a dict                                              *)
(***************************************************************************)
EmptyCache == [k \in {} |-> None]

CacheGet(c, key) == IF key \in DOMAIN c THEN c[key] ELSE None

CachePut(c, key, v) == [k \in DOMAIN c \cup {key} |-> IF k = key THEN v ELSE c[k]]

CacheDel(c, key) == [k \in DOMAIN c \ {key} |-> c[k]]

\* A key that leaves the name out.
CacheKeyDoctypeOnly(doctype, name) == doctype \o ":"

\* key = f"{doc.doctype}:{doc.name}"
CacheKey(doctype, name) == doctype \o ":" \o name

\* The key of each document of the model.
KeyOf == [d \in AllDocs |-> CacheKey(DocType(d), DocName(d))]

Key(d) == KeyOf[d]

(***************************************************************************)
(* get_workflow_for_doctype: the active workflow of a doctype, or None.   *)
(* Its own try/except turns a failing query or load into None.            *)
(***************************************************************************)
\* A lookup that forgets the is_active filter.
ActiveWorkflowsAnyFlag(doctype) == { w \in Workflows : w.document_type = doctype }

ActiveWorkflows(doctype) ==
    { w \in Workflows : w.document_type = doctype /\ w.is_active = 1 }

\* "return None": a workflow record that is falsy.
NoWorkflow ==
    [name |-> None, document_type |-> None, is_active |-> 0,
     workflow_state_field |-> None, transitions |-> {}]

IsWorkflow(w) == w.name # None

get_workflow_for_doctype(doctype, F) ==
    IF "get_all_workflow" \in F THEN NoWorkflow
    ELSE IF ActiveWorkflows(doctype) = {} THEN NoWorkflow
    ELSE IF "get_doc_workflow" \in F THEN NoWorkflow
    ELSE CHOOSE w \in ActiveWorkflows(doctype) : TRUE

\* The calls of get_workflow_for_doctype that raised.
WorkflowErrs(doctype, F) ==
    IF "get_all_workflow" \in F THEN {"get_all_workflow"}
    ELSE IF ActiveWorkflows(doctype) # {} /\ "get_doc_workflow" \in F
         THEN {"get_doc_workflow"}
    ELSE {}

(***************************************************************************)
(* The state field both hooks use: the workflow's field, else "status",   *)
(* else none (None).                                                       *)
(***************************************************************************)
ResolveStateField(workflow, doctype) ==
    IF workflow.workflow_state_field \in SchemaFields(doctype)
    THEN workflow.workflow_state_field
    ELSE IF "status" \in SchemaFields(doctype) THEN "status"
    ELSE None

\* frappe.db.exists(doctype, name)
Exists(d) == db[d] # Absent

\* A query that answers with the pending in-memory value.
GetValuePending(d, state_field) == mem[d]

\* frappe.db.get_value(doctype, name, state_field): every document of the
\* model carries one state column, the one ResolveStateField selects.
GetValue(d, state_field) == db[d]

\* doc.get(state_field)
DocGet(d, state_field) == mem[d]

(***************************************************************************)
(* check_workflow_state_change (the validate hook)                         *)
(* A result is [cache, wrote, exc, errs]: the cache after the run, whether *)
(* the run stored an entry, whether an exception is propagating, and the  *)
(* collaborator calls that raised.                                         *)
(***************************************************************************)
CheckResult(c, wrote, exc, errs) ==
    [cache |-> c, wrote |-> wrote, exc |-> exc, errs |-> errs]

\* An inner except clause that stores "no prior state" instead of returning.
StorePreviousNoneOnError(d, state_field, F, c) ==
    IF state_field = None THEN CheckResult(c, FALSE, FALSE, {})
    ELSE IF "get_value" \in F
         THEN CheckResult(CachePut(c, Key(d), None), TRUE, FALSE, {"get_value"})
    ELSE CheckResult(CachePut(c, Key(d), GetValue(d, state_field)), TRUE, FALSE, {})

\* Lines 35-58: the inner try block; its except clause returns.
StorePrevious(d, state_field, F, c) ==
    IF state_field = None THEN CheckResult(c, FALSE, FALSE, {})
    ELSE IF "get_value" \in F THEN CheckResult(c, FALSE, FALSE, {"get_value"})
    ELSE CheckResult(CachePut(c, Key(d), GetValue(d, state_field)), TRUE, FALSE, {})

CheckExisting(d, workflow, F, c) ==
    IF "get_meta" \in F THEN CheckResult(c, FALSE, FALSE, {"get_meta"})
    ELSE StorePrevious(d, ResolveStateField(workflow, DocType(d)), F, c)

\* Lines 26-63: the body of the outer try block.
CheckBody(d, workflow, F, c) ==
    IF "exists" \in F THEN CheckResult(c, FALSE, TRUE, {"exists"})
    ELSE IF Exists(d) THEN CheckExisting(d, workflow, F, c)
    ELSE CheckResult(CachePut(c, Key(d), None), TRUE, FALSE, {})

\* Lines 64-68: "except Exception: ... return".
CheckExcept(r) == [r EXCEPT !.exc = FALSE]

\* Lines 16-68: the hook, given the workflow the lookup returned.
CheckWith(workflow, d, F, c) ==
    IF ~IsWorkflow(workflow)
    THEN CheckResult(c, FALSE, FALSE, WorkflowErrs(DocType(d), F))
    ELSE CheckExcept(CheckBody(d, workflow, F, c))

check_workflow_state_change(d, F, c) ==
    CheckWith(get_workflow_for_doctype(DocType(d), F), d, F, c)

(***************************************************************************)
(* Users, employees and role membership (the role collaborator's data)    *)
(***************************************************************************)
UserTable ==
    { [name |-> "alice", email |-> "alice@x.io", enabled |-> 1],
      [name |-> "bob",   email |-> "bob@x.io",   enabled |-> 1],
      [name |-> "carol", email |-> "carol@x.io", enabled |-> 1],
      [name |-> "dave",  email |-> "dave@x.io",  enabled |-> 1],
      [name |-> "erin",  email |-> "erin@x.io",  enabled |-> 1],
      [name |-> "frank", email |-> "frank@x.io", enabled |-> 0],
      [name |-> "gina@x.io", email |-> "gina@x.io", enabled |-> 1] }

UserNames == { u.name : u \in UserTable }

EmployeeTable ==
    { [name |-> "EMP-1", user_id |-> "erin"],
      [name |-> "EMP-2", user_id |-> None] }

\* Rows of "Has Role" with parenttype User; one orphan row has no parent.
HasRoleRows ==
    { [parent |-> "alice", role |-> "Employee"],
      [parent |-> "bob",   role |-> "Manager"],
      [parent |-> "carol", role |-> "Manager"],
      [parent |-> "carol", role |-> "Employee"],
      [parent |-> "dave",  role |-> "HR"],
      [parent |-> "erin",  role |-> "Employee"],
      [parent |-> "frank", role |-> "Employee"],
      [parent |-> "frank", role |-> "HR"],
      [parent |-> "gina@x.io", role |-> "Auditor"],
      [parent |-> "",      role |-> "Auditor"] }

\* frappe.get_roles(user)
GetRoles(user) == { r.role : r \in { h \in HasRoleRows : h.parent = user } }

\* frappe.get_all("Has Role", filters={"role": role, ...}, pluck="parent")
UsersWithRole(role) == { r.parent : r \in { h \in HasRoleRows : h.role = role } }

\* The fields of a document the resolver reads.  extra holds the "role"
\* values of the rows of custom_extra_notification_recipients_.
DocFields(o, e, a, cb, x) ==
    [owner |-> o, employee |-> e, assigned_to |-> a, created_by |-> cb, extra |-> x]

(***************************************************************************)
(* get_users_for_role                                                      *)
(* A result is [users, errs]; the function's try/except returns what was  *)
(* collected before a call raised.                                         *)
(***************************************************************************)
\* Line 346: the priority list of fields.
EmployeeFields == <<"employee", "assigned_to", "owner", "created_by">>

\* A user or employee known to storage.
Resolves(v) ==
    \/ v \in UserNames
    \/ \E e \in EmployeeTable : e.name = v /\ Truthy(e.user_id)

\* A scan that goes on to the next field when a value resolves to no user.
FirstPopulatedThatResolves(doc) ==
    LET idx == { i \in 1..Len(EmployeeFields) : Resolves(doc[EmployeeFields[i]]) } IN
    IF idx = {} THEN None
    ELSE doc[EmployeeFields[CHOOSE i \in idx : \A j \in idx : i <= j]]

\* Lines 343-349: the value of the first populated field, or None.
FirstPopulated(doc) ==
    LET idx == { i \in 1..Len(EmployeeFields) : Truthy(doc[EmployeeFields[i]]) } IN
    IF idx = {} THEN None
    ELSE doc[EmployeeFields[CHOOSE i \in idx : \A j \in idx : i <= j]]

\* Lines 352-360: the user of the specific employee.
SpecificEmployee(employee_field, F) ==
    IF ~Truthy(employee_field) THEN [users |-> {}, exc |-> FALSE, errs |-> {}]
    ELSE IF "exists_user" \in F
         THEN [users |-> {}, exc |-> TRUE, errs |-> {"exists_user"}]
    ELSE IF employee_field \in UserNames
         THEN [users |-> {employee_field}, exc |-> FALSE, errs |-> {}]
    ELSE IF "exists_employee" \in F
         THEN [users |-> {}, exc |-> TRUE, errs |-> {"exists_employee"}]
    ELSE IF \E e \in EmployeeTable : e.name = employee_field
         THEN IF "get_doc_employee" \in F
              THEN [users |-> {}, exc |-> TRUE, errs |-> {"get_doc_employee"}]
              ELSE LET emp_doc == CHOOSE e \in EmployeeTable : e.name = employee_field IN
                   [users |-> IF Truthy(emp_doc.user_id) THEN {emp_doc.user_id} ELSE {},
                    exc |-> FALSE, errs |-> {}]
    ELSE [users |-> {}, exc |-> FALSE, errs |-> {}]

\* Lines 362-366: the owner, when the owner holds the Employee role.
OwnerIfEmployee(doc, F) ==
    IF ~Truthy(doc.owner) THEN [users |-> {}, exc |-> FALSE, errs |-> {}]
    ELSE IF "get_roles" \in F THEN [users |-> {}, exc |-> TRUE, errs |-> {"get_roles"}]
    ELSE [users |-> IF "Employee" \in GetRoles(doc.owner) THEN {doc.owner} ELSE {},
          exc |-> FALSE, errs |-> {}]

\* An Employee branch that asks the membership store like any other role.
EmployeeUsersAllHolders(doc, F) ==
    [users |-> { r.parent : r \in { h \in HasRoleRows : h.role = "Employee" } },
     errs |-> {}]

\* Lines 341-366: the Employee branch.
AddOwner(first, own) == [users |-> first.users \cup own.users, errs |-> own.errs]

EmployeeThenOwner(first, doc, F) ==
    IF first.exc THEN [users |-> first.users, errs |-> first.errs]
    ELSE AddOwner(first, OwnerIfEmployee(doc, F))

EmployeeUsers(doc, F) == EmployeeThenOwner(SpecificEmployee(FirstPopulated(doc), F), doc, F)

\* Lines 367-375: every user holding the role.
RoleNames == { h.role : h \in HasRoleRows } \cup {"Ghost"}

\* The name of the membership query for each role.
HasRoleCall == [role \in RoleNames |-> "has_role/" \o role]

RoleHolders(role, F) ==
    IF HasRoleCall[role] \in F
    THEN [users |-> {}, errs |-> {HasRoleCall[role]}]
    ELSE [users |-> UsersWithRole(role), errs |-> {}]

get_users_for_role(role, doc, F) ==
    IF role = "Employee" THEN EmployeeUsers(doc, F) ELSE RoleHolders(role, F)

(***************************************************************************)
(* get_transition_recipients                                               *)
(***************************************************************************)
\* The rows of the Workflow Transition table with the given parent: the
\* same rows get_doc loaded into workflow.transitions.
TransitionRows(parent) == UNION { w.transitions : w \in { x \in Workflows : x.name = parent } }

\* Line 314: role = transition.get("allowed") or transition.get("role")
TransitionRole(t) == IF Truthy(t.allowed) THEN t.allowed ELSE t.role

\* A resolution that one failing role empties.
MergeAbortOnError(rs) ==
    IF \E r \in rs : r.errs # {}
    THEN [users |-> {}, errs |-> UNION { r.errs : r \in rs }]
    ELSE [users |-> UNION { r.users : r \in rs }, errs |-> {}]

\* recipients.update(users) over the resolved roles.
Merge(rs) == [users |-> UNION { r.users : r \in rs }, errs |-> UNION { r.errs : r \in rs }]

\* Lines 312-324: resolve the role of each selected transition.
ResolveTransitions(ts, doc, F) ==
    Merge({ get_users_for_role(TransitionRole(t), doc, F) :
            t \in { x \in ts : Truthy(TransitionRole(x)) } })

\* A selection by the TO state.
TransitionsTo(workflow, current_state) ==
    { t \in workflow.transitions : t.next_state = current_state }

\* Lines 284-295: the transitions that start from current_state.
TransitionsFrom(workflow, current_state) ==
    { t \in workflow.transitions : t.state = current_state }

\* A fallback that matches the current state against the TO state.
SelectedTransitionsByNextState(transitions, workflow, current_state) ==
    IF transitions # {} THEN transitions
    ELSE { t \in TransitionRows(workflow.name) : t.next_state = current_state }

\* Lines 299-310: the direct query when the child table gave nothing.
SelectedTransitions(transitions, workflow, current_state) ==
    IF transitions # {} THEN transitions
    ELSE { t \in TransitionRows(workflow.name) : t.state = current_state }

\* A resolution over every transition of the workflow, whatever its state.
RecipientsOfAnyState(transitions, doc, workflow, current_state, F) ==
    ResolveTransitions(workflow.transitions, doc, F)

\* Lines 284-324: resolve the selected transitions; a failing query gives
\* no recipients.
RecipientsOf(transitions, doc, workflow, current_state, F) ==
    IF transitions = {} /\ "get_all_transition" \in F
    THEN [users |-> {}, errs |-> {"get_all_transition"}]
    ELSE ResolveTransitions(SelectedTransitions(transitions, workflow, current_state),
                            doc, F)

get_transition_recipients(doc, workflow, current_state, F) ==
    RecipientsOf(TransitionsFrom(workflow, current_state), doc, workflow, current_state, F)

(***************************************************************************)
(* get_extra_notification_recipients                                       *)
(***************************************************************************)
get_extra_notification_recipients(doc, F) ==
    Merge({ get_users_for_role(role, doc, F) : role \in { x \in doc.extra : Truthy(x) } })

(***************************************************************************)
(* get_notification_recipients                                             *)
(***************************************************************************)
\* Line 235: initiator = doc.get("owner") or frappe.session.user
Initiator(doc, session) == IF Truthy(doc.owner) THEN doc.owner ELSE session

\* Line 258: recipients = {r for r in recipients if r}
DropEmpty(S) == { r \in S : Truthy(r) }

\* Lines 236-237: "if initiator: recipients.add(initiator)"
InitiatorSet(initiator) == IF Truthy(initiator) THEN {initiator} ELSE {}

Combine(own, tr, ex) ==
    [users |-> DropEmpty(own \cup tr.users \cup ex.users), errs |-> tr.errs \cup ex.errs]

get_notification_recipients(doc, workflow, current_state, F, session) ==
    Combine(InitiatorSet(Initiator(doc, session)),
            get_transition_recipients(doc, workflow, current_state, F),
            get_extra_notification_recipients(doc, F))

(***************************************************************************)
(* send_workflow_notifications                                             *)
(* A result is [called, emails, errs]: whether enqueue_create_notification *)
(* was called, with which addresses, and the calls that raised.           *)
(***************************************************************************)
\* Line 468: "@" in str(recipient): the identities written with an "@".
AtIdentities == { u.email : u \in UserTable } \cup {"ghost@x.io"}

\* A lookup that forgets the enabled filter.
UserEmailAnyUser(recipient) ==
    LET hit == IF recipient \in AtIdentities
               THEN { u \in UserTable : u.email = recipient }
               ELSE { u \in UserTable : u.name = recipient }
    IN IF hit = {} THEN None ELSE (CHOOSE u \in hit : TRUE).email

\* Lines 466-481: the address of an enabled user, or None.
UserEmail(recipient) ==
    LET hit == IF recipient \in AtIdentities
               THEN { u \in UserTable : u.email = recipient /\ u.enabled = 1 }
               ELSE { u \in UserTable : u.name = recipient /\ u.enabled = 1 }
    IN IF hit = {} THEN None ELSE (CHOOSE u \in hit : TRUE).email

\* A filter that skips nobody.
DeliverableAll(doc, recipients, session) == recipients

\* Lines 456-464: the recipients that are looked up.
Deliverable(doc, recipients, session) ==
    { r \in recipients : ~(r = session /\ r # Initiator(doc, session)) }

\* Lines 488-540: the transport call, when an address remains.
Enqueue(notification_user_emails, F) ==
    IF notification_user_emails = {}
    THEN [called |-> FALSE, emails |-> {}, errs |-> {}]
    ELSE [called |-> TRUE, emails |-> notification_user_emails,
          errs |-> F \cap {"enqueue"}]

\* Lines 455-505: look the kept recipients up, then enqueue.
SendTo(kept, F) ==
    IF kept # {} /\ "user_email" \in F
    THEN [called |-> FALSE, emails |-> {}, errs |-> {"user_email"}]
    ELSE Enqueue(DropEmpty({ UserEmail(r) : r \in kept }), F)

send_workflow_notifications(doc, recipients, F, session) ==
    IF recipients = {} THEN [called |-> FALSE, emails |-> {}, errs |-> {}]
    ELSE SendTo(Deliverable(doc, recipients, session), F)

(***************************************************************************)
(* handle_workflow_transition (the on_update hook)                         *)
(* A result records the cache after the run, whether an exception is      *)
(* propagating, the calls that raised, whether a transition was detected  *)
(* and with which (previous_state, current_state), the recipients handed  *)
(* to send_workflow_notifications, and the transport call.                *)
(***************************************************************************)
HandleResult(c, exc, errs, saw, detected, prev, cur, recipients, called, emails) ==
    [cache |-> c, exc |-> exc, errs |-> errs, saw |-> saw, detected |-> detected,
     prev |-> prev, cur |-> cur, recipients |-> recipients,
     called |-> called, emails |-> emails]

\* A run that returns (or raises) before a transition is detected; saw tells
\* whether it had read the current state (line 107).
HandleReturn(c, exc, errs, saw) ==
    HandleResult(c, exc, errs, saw, FALSE, None, None, {}, FALSE, {})

\* The documents' fields the resolver reads.
DocAttrs(d) ==
    CASE d = "d_leave" -> DocFields("alice", None, "erin", None, {"Auditor"})
      [] d = "d_leave2" -> DocFields("frank", None, "alice", None, {})
      [] d = "d_claim" -> DocFields("bob", "EMP-1", None, None, {})
      [] d = "d_memo"  -> DocFields("carol", None, None, None, {})
      [] d = "d_note"  -> DocFields("dave", None, None, None, {"HR"})

\* A fallback that always takes the re-queried value.
FallbackPreviousPlain(d, state_field, current_state, was_new_document, F) ==
    IF "get_value" \in F THEN [previous_state |-> None, errs |-> {"get_value"}]
    ELSE [previous_state |-> GetValue(d, state_field), errs |-> {}]

\* Lines 117-135: the previous state after the storage fallback, as
\* [previous_state, errs].
FallbackPrevious(d, state_field, current_state, was_new_document, F) ==
    IF "get_value" \in F THEN [previous_state |-> None, errs |-> {"get_value"}]
    ELSE LET db_previous_state == GetValue(d, state_field) IN
         [previous_state |-> IF was_new_document /\ db_previous_state = current_state
                             THEN None ELSE db_previous_state,
          errs |-> {}]

\* A comparison that skips every document that is not new.
StateUnchangedNotNew(was_new_document, current_state, previous_state) ==
    ~was_new_document

\* Line 144: "if not was_new_document and current_state == previous_state"
StateUnchanged(was_new_document, current_state, previous_state) ==
    ~was_new_document /\ current_state = previous_state

\* Lines 179-181: clear the stored state.
ClearStored(c, key) == IF key \in DOMAIN c THEN CacheDel(c, key) ELSE c

\* A hand-off whose failure keeps the hook from reaching the deletion.
DetectedKeepsOnError(c, key, previous_state, current_state, errs, res, snd) ==
    HandleResult(IF snd.errs # {} THEN c ELSE ClearStored(c, key), FALSE,
                 errs \cup res.errs \cup snd.errs,
                 TRUE, TRUE, previous_state, current_state, res.users,
                 snd.called, snd.emails)

\* Lines 179-181 after the hand-off: the result of a detected transition.
Detected(c, key, previous_state, current_state, errs, res, snd) ==
    HandleResult(ClearStored(c, key), FALSE, errs \cup res.errs \cup snd.errs,
                 TRUE, TRUE, previous_state, current_state, res.users,
                 snd.called, snd.emails)

\* Lines 163-177: "if recipients: send_workflow_notifications(...)"
SendAndClear(d, F, c, session, previous_state, current_state, errs, res) ==
    Detected(c, Key(d), previous_state, current_state, errs, res,
             send_workflow_notifications(DocAttrs(d), res.users, F, session))

\* Lines 148-181: a detected transition: resolve, send, clear.
HandleDetected(d, workflow, F, c, session, previous_state, current_state, errs) ==
    SendAndClear(d, F, c, session, previous_state, current_state, errs,
                 get_notification_recipients(DocAttrs(d), workflow, current_state, F,
                                             session))

\* A decision without the test of line 138.
DecideNoEmptyCheck(d, workflow, F, c, session, current_state, was_new_document, fb) ==
    IF StateUnchanged(was_new_document, current_state, fb.previous_state)
    THEN HandleReturn(c, FALSE, fb.errs, TRUE)
    ELSE HandleDetected(d, workflow, F, c, session,
                        fb.previous_state, current_state, fb.errs)

\* Lines 137-181: the decision, given the previous state fb found.
Decide(d, workflow, F, c, session, current_state, was_new_document, fb) ==
    IF ~Truthy(current_state) THEN HandleReturn(c, FALSE, fb.errs, TRUE)
    ELSE IF StateUnchanged(was_new_document, current_state, fb.previous_state)
         THEN HandleReturn(c, FALSE, fb.errs, TRUE)
    ELSE HandleDetected(d, workflow, F, c, session,
                        fb.previous_state, current_state, fb.errs)

\* Lines 109-135: the previous state, from the cache or from storage.
Previous(d, workflow, state_field, F, c, session, current_state, cached) ==
    IF cached = None /\ "exists" \in F THEN HandleReturn(c, TRUE, {"exists"}, TRUE)
    ELSE Decide(d, workflow, F, c, session, current_state, cached = None,
                IF cached = None /\ Exists(d)
                THEN FallbackPrevious(d, state_field, current_state, cached = None, F)
                ELSE [previous_state |-> cached, errs |-> {}])

\* Lines 106-181: from reading the current state on.
HandleDecide(d, workflow, state_field, F, c, session) ==
    Previous(d, workflow, state_field, F, c, session,
             DocGet(d, state_field), CacheGet(c, Key(d)))

\* Lines 92-104: without a usable state field the hook returns.
WithStateField(d, workflow, state_field, F, c, session) ==
    IF state_field = None THEN HandleReturn(c, FALSE, {}, FALSE)
    ELSE HandleDecide(d, workflow, state_field, F, c, session)

\* Lines 85-181: the body of the outer try block.
HandleBody(d, workflow, F, c, session) ==
    IF "get_meta" \in F THEN HandleReturn(c, TRUE, {"get_meta"}, FALSE)
    ELSE WithStateField(d, workflow, ResolveStateField(workflow, DocType(d)), F, c, session)

\* A hook without its outer except clause.
HandleExceptMissing(r) == r

\* Lines 183-188: "except Exception: ... return".
HandleExcept(r) == [r EXCEPT !.exc = FALSE]

\* Lines 75-188: the hook, given the workflow the lookup returned.
HandleWith(workflow, d, F, c, session) ==
    IF ~IsWorkflow(workflow)
    THEN HandleReturn(c, FALSE, WorkflowErrs(DocType(d), F), FALSE)
    ELSE HandleExcept(HandleBody(d, workflow, F, c, session))

handle_workflow_transition(d, F, c, session) ==
    HandleWith(get_workflow_for_doctype(DocType(d), F), d, F, c, session)

(***************************************************************************)
(* The save cycle of the host framework (hooks.py: doc_events)             *)
(* The host serialises the saves of one process: a save runs validate,    *)
(* the write to storage and on_update before the next save begins.        *)
(***************************************************************************)
\* frappe.session.user of the request that saves.
SessionUsers == {"alice", "bob"}

\* The values a save may leave in a document's state field.
PendingValues(d) ==
    CASE d = "d_leave" -> StateValues
      [] d = "d_claim" -> {"Draft", "Pending"}
      [] d = "d_leave2" -> {"Draft", "Pending"}
      [] OTHER -> {"Draft"}

\* What a save cycle has seen so far: the value persisted before it, what
\* its validate hook stored, whether a storage or metadata call raised, and
\* the hand-offs made for the document before the save began.
NoCycle ==
    [before |-> Absent, recorded |-> NotWritten, validated |-> FALSE,
     storageErr |-> FALSE, sent |-> <<>>]

NoHook ==
    [hook |-> "none", doc |-> "none", escaped |-> FALSE, errs |-> {},
     wrote |-> FALSE, detected |-> FALSE, prev |-> None, cur |-> None,
     recipients |-> {}, called |-> FALSE, emails |-> {}, session |-> None,
     saw |-> FALSE, hadEntry |-> FALSE, cacheSame |-> TRUE, state |-> None,
     save |-> NoCycle]

\* The stand-alone resolver calls: [op, role, doc, cur, F, session].
NoCall == [op |-> "none", role |-> None, doc |-> DocFields(None, None, None, None, {}),
           cur |-> None, F |-> {}, session |-> None]

NoResult == [users |-> {}, errs |-> {}]

Init ==
    /\ db \in { [d \in Docs |-> v] : v \in {Absent, "Draft"} }
    /\ mem = [d \in Docs |-> None]
    /\ phase = [d \in Docs |-> "idle"]
    /\ cache = EmptyCache
    /\ cycle = [d \in Docs |-> NoCycle]
    /\ last = NoHook
    /\ saves = 0
    /\ rin = NoCall
    /\ rout = NoResult
    /\ handoffs = [d \in Docs |-> <<>>]

\* doc.save() / doc.insert() starts: the document holds its pending value.
BeginSave(d) ==
    /\ \A e \in Docs : phase[e] = "idle"
    /\ saves < MaxSaves
    /\ \E v \in PendingValues(d) : mem' = [mem EXCEPT ![d] = v]
    /\ phase' = [phase EXCEPT ![d] = "begun"]
    /\ cycle' = [cycle EXCEPT ![d] = [NoCycle EXCEPT !.before = db[d],
                                                     !.sent = handoffs[d]]]
    /\ last' = NoHook
    /\ saves' = saves + 1
    /\ UNCHANGED <<db, cache, rin, rout, handoffs>>

\* The validate event runs check_workflow_state_change.
\* What the save cycle has seen once the validate hook returned r.
Validated(cyc, key, r) ==
    [cyc EXCEPT !.recorded = IF r.wrote THEN r.cache[key] ELSE NotWritten,
                !.validated = TRUE,
                !.storageErr = (r.errs \cap StorageCalls # {})]

CheckRan(d, r, cyc) ==
    /\ cache' = r.cache
    /\ cycle' = [cycle EXCEPT ![d] = cyc]
    /\ last' = [NoHook EXCEPT !.hook = "check", !.doc = d, !.escaped = r.exc,
                              !.errs = r.errs, !.wrote = r.wrote,
                              !.hadEntry = (Key(d) \in DOMAIN cache),
                              !.cacheSame = (r.cache = cache),
                              !.state = mem[d], !.save = cyc]

CheckReturned(d, r) == CheckRan(d, r, Validated(cycle[d], Key(d), r))

Validate(d) ==
    /\ phase[d] = "begun"
    /\ \E F \in CheckFailures : CheckReturned(d, check_workflow_state_change(d, F, cache))
    /\ phase' = [phase EXCEPT ![d] = "validated"]
    /\ UNCHANGED <<db, mem, saves, rin, rout, handoffs>>

\* A save whose validate event is not dispatched (flags.ignore_validate):
\* the post-persist hook finds no entry of this save.
SkipValidate(d) ==
    /\ phase[d] = "begun"
    /\ phase' = [phase EXCEPT ![d] = "validated"]
    /\ UNCHANGED <<db, mem, cache, cycle, last, saves, rin, rout, handoffs>>

\* Another validator rejects the document: the save ends without on_update.
AbortSave(d) ==
    /\ phase[d] = "validated"
    /\ phase' = [phase EXCEPT ![d] = "idle"]
    /\ mem' = [mem EXCEPT ![d] = None]
    /\ cycle' = [cycle EXCEPT ![d] = NoCycle]
    /\ UNCHANGED <<db, cache, last, saves, rin, rout, handoffs>>

\* The host writes the document to storage.
Persist(d) ==
    /\ phase[d] = "validated"
    /\ db' = [db EXCEPT ![d] = mem[d]]
    /\ phase' = [phase EXCEPT ![d] = "persisted"]
    /\ UNCHANGED <<mem, cache, cycle, last, saves, rin, rout, handoffs>>

\* What the on_update hook's run r leaves behind.
HandleReturned(d, session, r) ==
         /\ cache' = r.cache
         /\ last' = [hook |-> "handle", doc |-> d, escaped |-> r.exc, errs |-> r.errs,
                     wrote |-> FALSE, detected |-> r.detected, prev |-> r.prev,
                     cur |-> r.cur, recipients |-> r.recipients, called |-> r.called,
                     emails |-> r.emails, session |-> session, saw |-> r.saw,
                     hadEntry |-> (Key(d) \in DOMAIN cache),
                     cacheSame |-> (r.cache = cache), state |-> mem[d],
                     save |-> [cycle[d] EXCEPT !.storageErr =
                                   @ \/ (r.errs \cap StorageCalls # {})]]
         /\ handoffs' = [handoffs EXCEPT ![d] =
                            IF r.called THEN Append(@, [prev |-> r.prev, cur |-> r.cur])
                            ELSE @]

\* The on_update event runs handle_workflow_transition; the request ends.
OnUpdate(d) ==
    /\ phase[d] = "persisted"
    /\ \E F \in HandleFailures[d], session \in SessionUsers :
         HandleReturned(d, session, handle_workflow_transition(d, F, cache, session))
    /\ phase' = [phase EXCEPT ![d] = "idle"]
    /\ mem' = [mem EXCEPT ![d] = None]
    /\ cycle' = [cycle EXCEPT ![d] = NoCycle]
    /\ UNCHANGED <<db, saves, rin, rout>>

Next ==
    \E d \in Docs :
        \/ BeginSave(d)
        \/ Validate(d)
        \/ SkipValidate(d)
        \/ AbortSave(d)
        \/ Persist(d)
        \/ OnUpdate(d)

Spec == Init /\ [][Next]_vars

(***************************************************************************)
(* Saves of different documents in progress at the same time in one       *)
(* process: a request may start saving a document while the save of       *)
(* another document is between its events (a save made from a hook of     *)
(* another document, or another thread of the same process).               *)
(***************************************************************************)
InitConcurrent ==
    /\ db \in [ConcurrentDocs -> {Absent, "Draft"}]
    /\ mem = [d \in ConcurrentDocs |-> None]
    /\ phase = [d \in ConcurrentDocs |-> "idle"]
    /\ cache = EmptyCache
    /\ cycle = [d \in ConcurrentDocs |-> NoCycle]
    /\ last = NoHook
    /\ saves = 0
    /\ rin = NoCall
    /\ rout = NoResult
    /\ handoffs = [d \in ConcurrentDocs |-> <<>>]

\* A save of d starts, whatever the other documents are doing.
BeginSaveConcurrent(d) ==
    /\ phase[d] = "idle"
    /\ saves < MaxSaves
    /\ \E v \in PendingValues(d) : mem' = [mem EXCEPT ![d] = v]
    /\ phase' = [phase EXCEPT ![d] = "begun"]
    /\ cycle' = [cycle EXCEPT ![d] = [NoCycle EXCEPT !.before = db[d],
                                                     !.sent = handoffs[d]]]
    /\ last' = NoHook
    /\ saves' = saves + 1
    /\ UNCHANGED <<db, cache, rin, rout, handoffs>>

NextConcurrent ==
    \E d \in ConcurrentDocs :
        \/ BeginSaveConcurrent(d)
        \/ Validate(d)
        \/ SkipValidate(d)
        \/ AbortSave(d)
        \/ Persist(d)
        \/ OnUpdate(d)

SpecConcurrent == InitConcurrent /\ [][NextConcurrent]_vars

(***************************************************************************)
(* Stand-alone calls of the resolver, on inputs drawn from bounded sets   *)
(***************************************************************************)
ResolverOwners == {None, "alice", "bob"}
ResolverEmployees == {None, "EMP-1", "EMP-2", "erin", "X-9"}
ResolverExtras == { {}, {"HR"}, {"Employee", None}, {"Auditor", "Manager"} }

ResolverDocs ==
    { DocFields(o, e, a, cb, x) :
        o \in ResolverOwners, e \in ResolverEmployees, a \in {None, "carol"},
        cb \in {None}, x \in ResolverExtras }

ResolverStates == {"Draft", "Pending", "Approved", "Rejected", "Closed"}

ResolverCalls ==
    { "exists_user", "exists_employee", "get_doc_employee", "get_roles",
      "has_role/Manager", "has_role/HR", "has_role/Auditor", "get_all_transition" }

ResolverFailures == UpTo(ResolverCalls, MaxFailures)

ResolverWorkflow == CHOOSE w \in Workflows : w.name = "Leave Approval"

\* The workflow documents handed to get_transition_recipients: as loaded with
\* their child table, and one whose transitions attribute is empty although
\* the Workflow Transition table holds its rows.
ResolverWorkflows ==
    { ResolverWorkflow,
      [ResolverWorkflow EXCEPT !.transitions = {}],
      CHOOSE w \in Workflows : w.name = "Claim Approval" }

InitResolver ==
    /\ db = [d \in Docs |-> Absent]
    /\ mem = [d \in Docs |-> None]
    /\ phase = [d \in Docs |-> "idle"]
    /\ cache = EmptyCache
    /\ cycle = [d \in Docs |-> NoCycle]
    /\ last = NoHook
    /\ saves = 0
    /\ rin = NoCall
    /\ rout = NoResult
    /\ handoffs = [d \in Docs |-> <<>>]

\* get_notification_recipients(doc, workflow, current_state, previous_state)
CallRecipients ==
    /\ rin.op = "none"
    /\ \E doc \in ResolverDocs, cur \in ResolverStates, F \in ResolverFailures,
          session \in SessionUsers :
         /\ rin' = [op |-> "recipients", role |-> None, doc |-> doc, cur |-> cur,
                    F |-> F, session |-> session]
         /\ rout' = get_notification_recipients(doc, ResolverWorkflow, cur, F, session)
    /\ UNCHANGED <<db, mem, phase, cache, cycle, last, saves, handoffs>>

\* get_users_for_role(role, doc)
CallUsersForRole ==
    /\ rin.op = "none"
    /\ \E doc \in ResolverDocs, role \in RoleNames, F \in ResolverFailures :
         /\ rin' = [op |-> "role", role |-> role, doc |-> doc, cur |-> None,
                    F |-> F, session |-> None]
         /\ rout' = get_users_for_role(role, doc, F)
    /\ UNCHANGED <<db, mem, phase, cache, cycle, last, saves, handoffs>>

\* get_transition_recipients(doc, workflow, current_state, previous_state)
CallTransitionRecipients ==
    /\ rin.op = "none"
    /\ \E doc \in ResolverDocs, workflow \in ResolverWorkflows, cur \in ResolverStates,
          F \in ResolverFailures :
         /\ rin' = [op |-> "transitions", role |-> None, doc |-> doc, cur |-> cur,
                    F |-> F, session |-> None, workflow |-> workflow]
         /\ rout' = get_transition_recipients(doc, workflow, cur, F)
    /\ UNCHANGED <<db, mem, phase, cache, cycle, last, saves, handoffs>>

\* The recipient identities handed to send_workflow_notifications: enabled
\* and disabled users, a user named by an address, and identities no User
\* row has.
SendRecipients == {"alice", "bob", "frank", "gina@x.io", "ghost", "ghost@x.io"}

SendOwners == {None, "alice", "frank"}

SendFailures == UpTo({"user_email", "enqueue"}, MaxFailures)

\* The result of a transport hand-off, with the recipients it was given.
SendOutcome(snd) ==
    [users |-> {}, errs |-> snd.errs, called |-> snd.called, emails |-> snd.emails]

\* send_workflow_notifications(doc, workflow, current_state, previous_state,
\* recipients)
CallSend ==
    /\ rin.op = "none"
    /\ \E o \in SendOwners, recipients \in SUBSET SendRecipients, F \in SendFailures,
          session \in SessionUsers :
         /\ rin' = [op |-> "send", role |-> None,
                    doc |-> DocFields(o, None, None, None, {}), cur |-> None,
                    F |-> F, session |-> session, recipients |-> recipients]
         /\ rout' = SendOutcome(send_workflow_notifications(
                        DocFields(o, None, None, None, {}), recipients, F, session))
    /\ UNCHANGED <<db, mem, phase, cache, cycle, last, saves, handoffs>>

NextResolver ==
    CallRecipients \/ CallUsersForRole \/ CallTransitionRecipients \/ CallSend

SpecResolver == InitResolver /\ [][NextResolver]_vars

(***************************************************************************)
(* Properties                                                              *)
(***************************************************************************)
Handled == last.hook = "handle"

\* The doctype has a workflow row that is active.
HasActiveWorkflow(doctype) ==
    \E w \in Workflows : w.document_type = doctype /\ w.is_active = 1

\* The case of C1: the validate hook of this save stored the persisted state
\* A of an existing document and the on_update hook read a non-empty current
\* state B different from A.
RecordedThenChanged ==
    /\ Handled
    /\ last.save.before # Absent
    /\ last.save.recorded = last.save.before
    /\ last.saw
    /\ Truthy(last.state)
    /\ last.state # last.save.recorded

DetectedFromRecorded ==
    /\ last.detected
    /\ last.prev = last.save.recorded
    /\ last.cur = last.state

C2_UnchangedStateNoTransition ==
    (Handled /\ last.save.validated /\ last.save.before # Absent
        /\ last.state = last.save.before)
    => (~last.detected /\ last.recipients = {} /\ ~last.called)

\* C3: for a brand-new document (absent from storage before the save) whose
\* state after the first save is a non-empty S, the on_update hook that reads
\* S and re-queries storage detects the initial transition (None, S).
C3_NewDocumentInitialTransition ==
    (Handled /\ last.save.before = Absent /\ last.saw /\ Truthy(last.state)
        /\ "exists" \notin last.errs)
    => (last.detected /\ last.prev = None /\ last.cur = last.state)

C3_Witness ==
    /\ Handled /\ last.save.before = Absent /\ last.save.validated
    /\ last.save.recorded = None /\ last.errs = {}
    /\ last.state = "Draft" /\ last.detected /\ last.prev = None /\ last.cur = "Draft"

\* C4: after the on_update hook has run for a document of a workflow-enabled
\* type, the cache holds no entry for the document's key, on every exit path.
C4_EntryDeletedOnEveryPath ==
    (Handled /\ HasActiveWorkflow(DocType(last.doc))) => Key(last.doc) \notin DOMAIN cache

\* C5: neither hook ever propagates an exception to its caller, whichever
\* collaborator call raises.
C5_NoExceptionEscapes == ~last.escaped

C5_Witness == Handled /\ "exists" \in last.errs /\ ~last.escaped

\* C6: if a storage or metadata call raises during either phase of a save,
\* no exception escapes and no notification transport call is made.
C6_StorageErrorNoNotification ==
    (Handled /\ last.save.storageErr) => (~last.escaped /\ ~last.called)

\* C7: for a document whose type has no active workflow, or whose workflow
\* lookup fails, both hooks are no-ops: no cache entry written, no recipients
\* computed, no transport call, the cache unchanged.
C7_NoWorkflowNoOp ==
    (last.hook \in {"check", "handle"}
        /\ (~HasActiveWorkflow(DocType(last.doc))
             \/ last.errs \cap {"get_all_workflow", "get_doc_workflow"} # {}))
    => (~last.wrote /\ ~last.detected /\ last.recipients = {} /\ ~last.called
          /\ last.cacheSame)

C7_Witness ==
    /\ Handled /\ last.doc = "d_note"
    /\ last.save.before = Absent /\ last.state = "Draft"
    /\ ~last.detected /\ last.cacheSame

\* The users the three sources of C8 contribute.
OwnerOrSession(doc, session) == IF Truthy(doc.owner) THEN {doc.owner} ELSE {session}

FromStateRoles(workflow, cur) ==
    { t.allowed : t \in { x \in workflow.transitions : x.state = cur } }

ResolvedUsers(roles, doc, F) ==
    UNION { get_users_for_role(role, doc, F).users : role \in { r \in roles : Truthy(r) } }

\* C8: get_notification_recipients returns exactly the duplicate-free union of
\* the owner (the session user when the owner is absent), the users resolved
\* from the allowed role of every transition whose from-state is the current
\* state, and the users resolved from every extra-recipient role, without
\* empty identities.
C8_RecipientsAreTheUnion ==
    rin.op = "recipients" =>
        rout.users =
            { u \in OwnerOrSession(rin.doc, rin.session)
                      \cup ResolvedUsers(FromStateRoles(ResolverWorkflow, rin.cur),
                                         rin.doc, rin.F)
                      \cup ResolvedUsers(rin.doc.extra, rin.doc, rin.F)
              : u # None /\ u # "" }

C8_Witness ==
    /\ rin.op = "recipients" /\ rin.cur = "Pending" /\ rin.F = {}
    /\ rin.doc.owner = None /\ rin.session = "alice" /\ rin.doc.extra = {"Auditor", "Manager"}
    /\ rout.users = {"alice", "bob", "carol", "dave", "frank", "gina@x.io"}

\* The user the first populated priority field of the document resolves to.
FirstFieldUser(doc) ==
    LET populated == { i \in 1..4 :
                         doc[<<"employee", "assigned_to", "owner", "created_by">>[i]]
                             \notin {None, ""} }
        v == IF populated = {} THEN None
             ELSE doc[<<"employee", "assigned_to", "owner", "created_by">>[
                          CHOOSE i \in populated : \A j \in populated : i <= j]]
    IN IF \E u \in UserTable : u.name = v THEN {v}
       ELSE { e.user_id : e \in { x \in EmployeeTable : x.name = v } }

EmployeeSubset == rout.users \subseteq FirstFieldUser(rin.doc) \cup {rin.doc.owner}

OwnerHoldsEmployee ==
    \E h \in HasRoleRows : h.parent = rin.doc.owner /\ h.role = "Employee"

EntryOf(c, d) == IF Key(d) \in DOMAIN c THEN c[Key(d)] ELSE NotWritten

\* Between its two hooks, a document's entry is the one its own validate hook
\* recorded: this is what its on_update hook will read.
OwnEntryKept ==
    \A d \in DOMAIN phase :
        (phase[d] \in {"validated", "persisted"} /\ cycle[d].recorded # NotWritten)
        => EntryOf(cache, d) = cycle[d].recorded

\* A step of one document's save leaves every other document's entry alone.
OthersUntouched ==
    \A d \in DOMAIN phase :
        phase'[d] # phase[d]
        => \A e \in DOMAIN phase \ {d} : EntryOf(cache', e) = EntryOf(cache, e)

\* C11: when the saves of different documents (different (doctype, name)
\* pairs, names with ':' included) interleave in one process, the on_update
\* hook of each document reads the previous state its own validate hook
\* recorded, and no hook adds, overwrites or deletes another document's entry.
C11_DocumentsDoNotInterfere == []OwnEntryKept /\ [][OthersUntouched]_vars

C11_Witness ==
    /\ DOMAIN phase = ConcurrentDocs
    /\ phase["d_leave"] = "validated" /\ cycle["d_leave"].recorded = "Draft"
    /\ phase["d_leave2"] = "persisted" /\ cycle["d_leave2"].recorded = None
    /\ last.hook = "check" /\ last.doc = "d_leave"
    /\ EntryOf(cache, "d_leave") = "Draft" /\ EntryOf(cache, "d_leave2") = None

\* C12: over any sequence of saves of one document, the entry the on_update
\* hook consumes was written by the validate hook of the same save, never by
\* an earlier save.
C12_EntryFromSameSave ==
    (Handled /\ last.saw /\ last.hadEntry) => last.save.recorded # NotWritten

\* The doctype has an active workflow but neither the workflow's state field
\* nor "status" is a field of its schema.
NoUsableStateField(doctype) ==
    /\ HasActiveWorkflow(doctype)
    /\ \A w \in Workflows :
          (w.document_type = doctype /\ w.is_active = 1)
          => (w.workflow_state_field \notin SchemaFields(doctype)
                /\ "status" \notin SchemaFields(doctype))

\* C13: when neither the configured state field nor "status" exists on the
\* schema, both hooks are silent no-ops for new and existing documents: no
\* entry written, no recipients, no transport call, the cache unchanged.
C13_NoStateFieldNoOp ==
    (last.hook \in {"check", "handle"} /\ NoUsableStateField(DocType(last.doc)))
    => (~last.wrote /\ ~last.detected /\ last.recipients = {} /\ ~last.called
          /\ last.cacheSame)

\* The doctype has an active workflow and a state field the hooks can use.
UsableStateField(doctype) ==
    HasActiveWorkflow(doctype) /\ ~NoUsableStateField(doctype)

\* C14: after the validate hook stored an entry for a document with an active
\* workflow and a usable state field, the entry equals the value persisted
\* before the save when the document exists in storage, and None when it
\* does not; it is never the pending in-memory value.
C14_RecordsPersistedValue ==
    (last.hook = "check" /\ last.wrote /\ UsableStateField(DocType(last.doc)))
    => EntryOf(cache, last.doc) =
           (IF last.save.before = Absent THEN None ELSE last.save.before)

C14_Witness ==
    /\ last.hook = "check" /\ last.wrote /\ last.doc = "d_leave"
    /\ last.save.before = "Draft" /\ last.state = "Pending"
    /\ EntryOf(cache, "d_leave") = "Draft"

\* C15: when the existence check, the metadata introspection or the storage
\* lookup raises inside the validate hook, the error is swallowed and the
\* cache is exactly as before the call.
C15_CheckFailureLeavesCache ==
    (last.hook = "check" /\ last.errs \cap {"exists", "get_meta", "get_value"} # {})
    => (~last.escaped /\ ~last.wrote /\ last.cacheSame)

C15_Witness ==
    /\ last.hook = "check" /\ "get_value" \in last.errs
    /\ last.hadEntry /\ last.cacheSame /\ ~last.escaped
    /\ EntryOf(cache, last.doc) # NotWritten

\* C16: whenever the current state read after persistence is empty (None or
\* ""), the on_update hook detects no transition, resolves no recipients and
\* makes no transport call, whatever the previous state and whether or not
\* the document is new.
C16_EmptyStateNoTransition ==
    (Handled /\ ~Truthy(last.state))
    => (~last.detected /\ last.recipients = {} /\ ~last.called)

C16_Witness ==
    /\ Handled /\ last.saw /\ last.state = "" /\ last.errs = {}
    /\ last.save.recorded = "Draft" /\ last.hadEntry
    /\ ~last.detected /\ ~last.called

\* The allowed roles of the stored transition rows of a workflow that start
\* from, respectively lead to, a state.
StoredRolesFrom(name, cur) ==
    { t.allowed : t \in { x \in UNION { w.transitions : w \in { y \in Workflows : y.name = name } }
                            : x.state = cur } }

StoredRolesTo(name, cur) ==
    { t.allowed : t \in { x \in UNION { w.transitions : w \in { y \in Workflows : y.name = name } }
                            : x.next_state = cur } }

\* C17: get_transition_recipients resolves the allowed role of every
\* transition of the workflow whose from-state is the current state, and no
\* transition with another from-state (one leaving the previous state, or one
\* merely leading to the current state) contributes users.
C17_OnlyFromStateTransitions ==
    rin.op = "transitions" =>
        /\ ResolvedUsers(FromStateRoles(rin.workflow, rin.cur), rin.doc, rin.F)
              \subseteq rout.users
        /\ rout.users
              \subseteq ResolvedUsers(StoredRolesFrom(rin.workflow.name, rin.cur),
                                      rin.doc, rin.F)

C17_Witness ==
    /\ rin.op = "transitions" /\ rin.cur = "Pending" /\ rin.F = {}
    /\ rin.workflow = ResolverWorkflow
    /\ rout.users = {"bob", "carol", "dave", "frank"}

\* The case of C18: no transition of the loaded workflow starts from the
\* current state.
NoLoadedFromState ==
    /\ rin.op = "transitions"
    /\ \A t \in rin.workflow.transitions : t.state # rin.cur

\* C18 as stated: in that case the function scans all transitions of the
\* workflow, matches the current state against the to-state field and
\* resolves the allowed role of each transition matched that way.
C18_FallbackMatchesToState ==
    (NoLoadedFromState /\ rin.F = {})
    => rout.users = ResolvedUsers(StoredRolesTo(rin.workflow.name, rin.cur), rin.doc, rin.F)

\* C18 amended: in that case the function queries the stored transitions of
\* the workflow, again by from-state, and resolves the allowed role of each
\* row found; a transition that only leads to the current state contributes
\* nothing, and a failing query gives no users.
C18_FallbackQueriesFromState ==
    NoLoadedFromState
    => rout.users =
           (IF "get_all_transition" \in rin.F THEN {}
            ELSE ResolvedUsers(StoredRolesFrom(rin.workflow.name, rin.cur), rin.doc, rin.F))

C18_Witness ==
    /\ NoLoadedFromState /\ rin.workflow.transitions = {}
    /\ rin.workflow.name = "Leave Approval"
    /\ rin.cur = "Pending" /\ rin.F = {}
    /\ rout.users = {"bob", "carol", "dave", "frank"}

\* The users a role stands for when nothing fails, and the lookups its
\* resolution makes.
ExpectedRoleUsers(role, doc) ==
    IF role = "Employee"
    THEN { u \in FirstFieldUser(doc) \cup {doc.owner} :
             u \in FirstFieldUser(doc)
             \/ \E h \in HasRoleRows : h.parent = u /\ h.role = "Employee" }
    ELSE { h.parent : h \in { x \in HasRoleRows : x.role = role } }

RoleLookups(role) ==
    IF role = "Employee"
    THEN {"exists_user", "exists_employee", "get_doc_employee", "get_roles"}
    ELSE {"has_role/" \o role}

\* C19: when the resolution of one role fails, get_notification_recipients
\* still returns a result that contains the owner and the users of every
\* other role whose lookups did not fail.
C19_FailingRoleDoesNotAbort ==
    rin.op = "recipients" =>
        /\ (rin.doc.owner \notin {None, ""} => rin.doc.owner \in rout.users)
        /\ \A role \in (FromStateRoles(ResolverWorkflow, rin.cur) \cup rin.doc.extra)
                        \ {None, ""} :
              RoleLookups(role) \cap rin.F = {}
              => (ExpectedRoleUsers(role, rin.doc) \ {None, ""}) \subseteq rout.users

C19_Witness ==
    /\ rin.op = "recipients" /\ rin.F = {"has_role/Manager"} /\ rin.cur = "Pending"
    /\ rin.doc.owner = "alice" /\ rin.doc.extra = {"HR"}
    /\ "has_role/Manager" \in rout.errs
    /\ rout.users = {"alice", "dave", "frank"}

\* The users a notification can be delivered to.
EnabledUsers == { u.name : u \in { x \in UserTable : x.enabled = 1 } }

\* C20: every detected transition whose resolved recipients include at least
\* one enabled user leads, in the same on_update run, to one call of
\* enqueue_create_notification with a non-empty list of addresses.  Stated
\* for the runs in which no collaborator call raises.
C20_DetectedLeadsToDelivery ==
    (Handled /\ last.detected /\ last.errs = {}
        /\ last.recipients \cap EnabledUsers # {})
    => (last.called /\ last.emails # {})

\* The owner, when the owner holds the Employee role (the rule of lines
\* 362-366, which follows the scan).
OwnerByRole(doc) ==
    { o \in {doc.owner} : \E h \in HasRoleRows : h.parent = o /\ h.role = "Employee" }

\* C21: for role Employee the scan of employee, assigned_to, owner, created_by
\* uses only the first populated field: its value is added when it is an
\* existing User, else the user_id of the Employee record of that name when
\* present; no later field is consulted by the scan, also when the first
\* populated value resolves to no user.  With the owner rule that follows the
\* scan, the result of a run without failures is exactly those users.
C21_FirstPopulatedFieldOnly ==
    (rin.op = "role" /\ rin.role = "Employee" /\ rin.F = {})
    => rout.users = (FirstFieldUser(rin.doc) \ {None, ""}) \cup OwnerByRole(rin.doc)

C21_Witness ==
    /\ rin.op = "role" /\ rin.role = "Employee" /\ rin.F = {}
    /\ rin.doc.employee = "X-9" /\ rin.doc.assigned_to = "carol"
    /\ rin.doc.owner = "bob"
    /\ rout.users = {}

\* The addresses of the User rows with a given name.
AddressesOf(user) == { u.email : u \in { x \in UserTable : x.name = user } }

EnabledAddresses(recipients) ==
    { u.email : u \in { x \in UserTable :
                          x.enabled = 1
                          /\ (x.name \in recipients \/ x.email \in recipients) } }

\* C25: every address passed to enqueue_create_notification is the address of
\* an enabled User obtained from a member of the recipient set; disabled and
\* unknown recipients are never delivered to, and when no address remains the
\* transport is not called.
C25_OnlyEnabledUsersDelivered ==
    rin.op = "send" =>
        /\ rout.emails \subseteq EnabledAddresses(rin.recipients)
        /\ (rout.called => rout.emails # {})
        /\ (rout.emails = {} => ~rout.called)

C25_Witness ==
    /\ rin.op = "send" /\ rin.F = {} /\ rin.session = "alice" /\ rin.doc.owner = None
    /\ rin.recipients = {"alice", "frank", "ghost", "ghost@x.io"}
    /\ rout.called /\ rout.emails = {"alice@x.io"}

\* C23: when the on_update hook detects a transition, the entry at the
\* document's key is gone when the hook returns, whatever the recipients and
\* whether or not the transport or an address lookup raises.
C23_DetectedTransitionClearsEntry ==
    (Handled /\ last.detected) => EntryOf(cache, last.doc) = NotWritten

C23_Witness ==
    /\ Handled /\ last.detected /\ last.hadEntry
    /\ last.called /\ "enqueue" \in last.errs
    /\ EntryOf(cache, last.doc) = NotWritten

\* The case of C22: an earlier save of this existing document changed its
\* state from A to B and was handed to the transport once; this save leaves
\* the state at B and its validate hook ran.
SavedAgainUnchanged ==
    /\ Handled /\ last.save.validated
    /\ last.save.before # Absent /\ last.state = last.save.before
    /\ Len(last.save.sent) = 1
    /\ last.save.sent[1].cur = last.state
    /\ Truthy(last.save.sent[1].prev) /\ last.save.sent[1].prev # last.state

\* C22: saving an existing document with a state change A -> B and then
\* saving it again with the state still B produces exactly one hand-off: the
\* on_update hook of the second save detects no transition.
C22_RepeatedSaveNotifiesOnce ==
    SavedAgainUnchanged => (~last.detected /\ handoffs[last.doc] = last.save.sent)

\* C10: when the on_update hook finds no cache entry for an existing document,
\* the storage fallback still decides correctly: a transition is detected
\* only when the save changed the state.
C10_FallbackDecidesCorrectly ==
    (Handled /\ last.save.before # Absent /\ ~last.hadEntry /\ last.detected)
    => last.state # last.save.before

====
